---- MODULE Spec2Model ----
(***************************************************************************)
(* go-audit: the event-correlation and enrichment core of parser.go.       *)
(*                                                                         *)
(* Text is modelled as a sequence of one-character strings, indexed as Go  *)
(* indexes a string (from 0, through Slice and From).  A Go int is 64 bits *)
(* wide and TLC's integers are 32, so an int (AuditMessage.Seq) is         *)
(* modelled by its decimal numeral, the text strconv.Itoa prints for it.   *)
(* Usernames and hostnames, which the code never scans, are plain strings. *)
(* A run-time panic is a field "panic" of an operation's result; the       *)
(* assignments made before the panic are kept, as in Go.                   *)
(***************************************************************************)
EXTENDS Integers, Sequences, FiniteSets, TLC

VARIABLES
    groups,     \* seq -> AuditMessageGroup: the correlator's open groups
    uidMap,     \* var uidMap: the process-wide uid -> username cache
    am,         \* the AuditMessage NewAuditMessage returned last
    dnsCall,    \* mapDns's locals at its last return: saddr, ip, host, err
    calls,      \* seq -> uid -> number of getUsername calls made for the group
    panicked,   \* a run-time panic has ended the process
    arg,        \* the argument of the one call (function specifications)
    ret,        \* its result
    pc          \* "idle", "call" or "done" (function specifications)

vars == <<groups, uidMap, am, dnsCall, calls, panicked, arg, ret, pc>>

-----------------------------------------------------------------------------
(* Constants of parser.go *)

SYSCALL == 1300
CONFIG_CHANGE == 1305
SOCKADDR == 1306
CWD == 1307
EXECVE == 1309
HEADER_MIN_LENGTH == 7
HEADER_START_POS == 6
SOCKADDR_LENGTH == 34

headerEndChar == ")"
headerSepChar == ":"
spaceChar == " "

-----------------------------------------------------------------------------
(* Bounds of the model *)

\* Messages the correlator consumes in one run of the main specification.
MaxMsgs == 3

-----------------------------------------------------------------------------
(* Go's string and slice operations *)

Min(S) == CHOOSE x \in S : \A y \in S : x <= y

\* s[lo:hi], defined for 0 <= lo <= hi <= len(s); the callers check the range.
Slice(s, lo, hi) == SubSeq(s, lo + 1, hi)

\* s[lo:]
From(s, lo) == SubSeq(s, lo + 1, Len(s))

\* strings.Index / bytes.Index: the offset of the first sub in s, or -1.
Index(s, sub) ==
    LET hits == {i \in 0..(Len(s) - Len(sub)) : SubSeq(s, i + 1, i + Len(sub)) = sub}
    IN  IF hits = {} THEN -1 ELSE Min(hits)

\* strings.IndexByte
IndexByte(s, c) == Index(s, <<c>>)

\* A map with key k set to v.
MapPut(m, k, v) == (k :> v) @@ m

-----------------------------------------------------------------------------
(* strconv.Atoi on a 64-bit build.  The result is the numeral of the int   *)
(* returned and whether an error was returned: 0 on a syntax error, the    *)
(* nearest limit of the range on a range error.                            *)

DigitChars == {"0", "1", "2", "3", "4", "5", "6", "7", "8", "9"}

DigitVal(c) ==
    CASE c = "0" -> 0 [] c = "1" -> 1 [] c = "2" -> 2 [] c = "3" -> 3 [] c = "4" -> 4
      [] c = "5" -> 5 [] c = "6" -> 6 [] c = "7" -> 7 [] c = "8" -> 8 [] c = "9" -> 9

Zero == <<"0">>

\* math.MaxInt64 and the magnitude of math.MinInt64
MaxIntMag == <<"9","2","2","3","3","7","2","0","3","6","8","5","4","7","7","5","8","0","7">>
MinIntMag == <<"9","2","2","3","3","7","2","0","3","6","8","5","4","7","7","5","8","0","8">>

\* The digits without their leading zeros ("0" for zero).
RECURSIVE TrimZeros(_)
TrimZeros(d) ==
    IF Len(d) > 1 /\ d[1] = "0" THEN TrimZeros(Tail(d)) ELSE d

\* a < b, for two numerals without sign or leading zeros
NumLess(a, b) ==
    \/ Len(a) < Len(b)
    \/ /\ Len(a) = Len(b)
       /\ \E i \in 1..Len(a) :
            /\ SubSeq(a, 1, i - 1) = SubSeq(b, 1, i - 1)
            /\ DigitVal(a[i]) < DigitVal(b[i])

Atoi(s) ==
    LET neg    == Len(s) > 0 /\ s[1] = "-"
        signed == Len(s) > 0 /\ s[1] \in {"+", "-"}
        body   == IF signed THEN Tail(s) ELSE s
    IN  IF body = <<>> \/ \E i \in 1..Len(body) : body[i] \notin DigitChars
        THEN [n |-> Zero, err |-> TRUE]
        ELSE LET mag == TrimZeros(body)
                 lim == IF neg THEN MinIntMag ELSE MaxIntMag
             IN  IF NumLess(lim, mag)
                 THEN [n |-> IF neg THEN <<"-">> \o lim ELSE lim, err |-> TRUE]
                 ELSE [n |-> IF neg /\ mag # Zero THEN <<"-">> \o mag ELSE mag,
                       err |-> FALSE]

-----------------------------------------------------------------------------
(* Header Parser *)

\* A slip of headerRest: only the ')' is removed with the header.
headerRest_short(Data, headerStop) == From(Data, headerStop + 1)

\* msg.Data = msg.Data[headerStop+3:]
headerRest(Data, headerStop) == From(Data, headerStop + 3)

\* parseAuditHeader: the timestamp, the sequence, msg.Data as it leaves it,
\* and whether it panicked (a slice out of range).
parseAuditHeader(Data) ==
    LET headerStop == IndexByte(Data, headerEndChar)
        none == [time |-> <<>>, seq |-> Zero, Data |-> Data, panic |-> FALSE]
    IN  IF headerStop < HEADER_MIN_LENGTH THEN none
        ELSE
          LET header == Slice(Data, 0, headerStop)
          IN  IF Slice(header, 0, HEADER_START_POS) = <<"a","u","d","i","t","(">>
              THEN LET sep == IndexByte(header, headerSepChar)
                   IN  IF sep < HEADER_START_POS
                       \* header[HEADER_START_POS:sep] with sep = -1
                       THEN [none EXCEPT !.panic = TRUE]
                       ELSE
                         LET time == Slice(header, HEADER_START_POS, sep)
                             seq  == Atoi(From(header, sep + 1)).n
                         IN  IF headerStop + 3 > Len(Data)
                             \* msg.Data[headerStop+3:] beyond the end
                             THEN [time |-> time, seq |-> seq, Data |-> Data,
                                   panic |-> TRUE]
                             ELSE [time |-> time, seq |-> seq,
                                   Data |-> headerRest(Data, headerStop),
                                   panic |-> FALSE]
              ELSE none

\* The zero AuditMessage
NoMsg == [Type |-> 0, Data |-> <<>>, Seq |-> Zero, AuditTime |-> <<>>]

\* NewAuditMessage: the message, or a panic of parseAuditHeader
NewAuditMessage(nlm) ==
    LET h == parseAuditHeader(nlm.Data)
    IN  [am |-> [Type |-> nlm.Type, Data |-> h.Data, Seq |-> h.seq,
                 AuditTime |-> h.time],
         panic |-> h.panic]

-----------------------------------------------------------------------------
(* Socket Address Decoder *)

HexChars == DigitChars \cup {"a", "b", "c", "d", "e", "f", "A", "B", "C", "D", "E", "F"}

HexVal(c) ==
    CASE c \in DigitChars -> DigitVal(c)
      [] c \in {"a", "A"} -> 10 [] c \in {"b", "B"} -> 11 [] c \in {"c", "C"} -> 12
      [] c \in {"d", "D"} -> 13 [] c \in {"e", "E"} -> 14 [] c \in {"f", "F"} -> 15

HexDigits == <<"0","1","2","3","4","5","6","7","8","9","a","b","c","d","e","f">>

\* hex.Decode: the bytes decoded before the first character that is no hex
\* digit, and whether there was one.
RECURSIVE hexDecode(_)
hexDecode(s) ==
    IF Len(s) < 2 THEN [b |-> <<>>, err |-> Len(s) = 1]
    ELSE IF s[1] \notin HexChars \/ s[2] \notin HexChars THEN [b |-> <<>>, err |-> TRUE]
    ELSE LET r == hexDecode(Tail(Tail(s)))
         IN  [b |-> <<16 * HexVal(s[1]) + HexVal(s[2])>> \o r.b, err |-> r.err]

\* hex.DecodeString.  On an error it returns the bytes decoded before the
\* error (Go 1.10 and later: partial) or nil (before Go 1.10).
DecodeString(s, partial) ==
    LET r == hexDecode(s)
    IN  IF r.err /\ ~partial THEN [b |-> <<>>, err |-> TRUE] ELSE r

\* strconv.Itoa of a byte
RECURSIVE Itoa(_)
Itoa(n) ==
    IF n < 10 THEN <<HexDigits[n + 1]>> ELSE Itoa(n \div 10) \o <<HexDigits[(n % 10) + 1]>>

RECURSIVE hexString(_)
hexString(b) ==
    IF b = <<>> THEN <<>>
    ELSE <<HexDigits[(b[1] \div 16) + 1], HexDigits[(b[1] % 16) + 1]>> \o hexString(Tail(b))

\* net.IP(b).String() for a b of at most 4 bytes
IPString(b) ==
    IF Len(b) = 0 THEN <<"<","n","i","l",">">>
    ELSE IF Len(b) = 4
         THEN Itoa(b[1]) \o <<".">> \o Itoa(b[2]) \o <<".">> \o Itoa(b[3]) \o <<".">> \o Itoa(b[4])
         ELSE <<"?">> \o hexString(b)

\* A slip of addrHex: the digits right after the family tag.
addrHex_port(saddr) == Slice(saddr, 4, 12)

\* saddr[8:16], the hex digits of the address
addrHex(saddr) == Slice(saddr, 8, 16)

\* parseAddr: the address, and whether it panicked (a slice out of range).
\* A decode error is logged and the bytes DecodeString returned are formatted.
parseAddr(saddr, partial) ==
    IF Len(saddr) < 4 THEN [addr |-> <<>>, panic |-> TRUE]
    ELSE IF Slice(saddr, 0, 4) = <<"0","2","0","0">>
         THEN IF Len(saddr) < 16 THEN [addr |-> <<>>, panic |-> TRUE]
              ELSE [addr |-> IPString(DecodeString(addrHex(saddr), partial).b),
                    panic |-> FALSE]
         ELSE [addr |-> <<>>, panic |-> FALSE]

-----------------------------------------------------------------------------
(* Identity Resolver *)

\* The system's user database: user.LookupId finds uid u when u is among the
\* users present at the time of the call.
Passwd == (<<"0">> :> "root") @@ (<<"1","0","0","0">> :> "alice")

\* getUsername: the username, and the process-wide cache after the call.
getUsername(uid, cache, present) ==
    IF uid \in DOMAIN cache
    THEN [uname |-> cache[uid], uidMap |-> cache]
    ELSE LET uname == IF uid \in present THEN Passwd[uid] ELSE "UNKNOWN_USER"
         IN  [uname |-> uname, uidMap |-> MapPut(cache, uid, uname)]

-----------------------------------------------------------------------------
(* Field Extractor and Group Correlator *)

\* mapDns's locals when it returns before the resolver is called
NoCall == [called |-> FALSE, saddr |-> <<>>, ip |-> <<>>, host |-> "", err |-> FALSE]

\* A slip of dnsOk: the error is not looked at.
dnsOk_always(err) == TRUE

\* err == nil after c.Get(ip)
dnsOk(err) == ~err

\* mapDns.  res is what c.Get(ip) answers: [host, err].
mapDns(amg, m, partial, res) ==
    LET data  == m.Data
        idx   == Index(data, <<"s","a","d","d","r","=">>)
        start == idx + 6
        sp    == IndexByte(From(data, start), spaceChar)
        end   == IF sp < 0 THEN Len(data) - start ELSE sp
        skip  == [amg |-> amg, dnsCall |-> NoCall, panic |-> FALSE]
    IN  IF idx < 0 THEN skip
        ELSE IF sp < 0 /\ end > SOCKADDR_LENGTH THEN skip
        ELSE
          LET saddr == Slice(data, start, start + end)
              got   == [amg EXCEPT !.gotSaddr = TRUE]
              pa    == parseAddr(saddr, partial)
          IN  IF pa.panic
              THEN [amg |-> got, dnsCall |-> [NoCall EXCEPT !.saddr = saddr],
                    panic |-> TRUE]
              ELSE
                [amg |-> IF dnsOk(res.err)
                         THEN [got EXCEPT !.gotDNS = TRUE,
                                          !.DnsMap = MapPut(@, pa.addr, res.host)]
                         ELSE got,
                 dnsCall |-> [called |-> TRUE, saddr |-> saddr, ip |-> pa.addr,
                              host |-> res.host, err |-> res.err],
                 panic |-> FALSE]

\* A slip of uidTooLong: a limit of 3 characters.
uidTooLong_3(end) == end > 3

\* "end > 5": the run to the end of the line cannot be a uid
uidTooLong(end) == end > 5

\* A slip of uidKnown: the group's map is not consulted.
uidKnown_never(UidMap, uid) == FALSE

\* _, ok := amg.UidMap[uid]
uidKnown(UidMap, uid) == uid \in DOMAIN UidMap

\* mapUids's loop.  st holds amg.UidMap, the process-wide uidMap and the
\* getUsername calls counted so far; data is the text still to scan.
RECURSIVE mapUidsLoop(_, _, _)
mapUidsLoop(st, data, present) ==
    LET idx   == Index(data, <<"u","i","d","=">>)
        start == idx + 4
        sp    == IndexByte(From(data, start), spaceChar)
        end   == IF sp < 0 THEN Len(data) - start ELSE sp
    IN  IF idx < 0 THEN st
        ELSE IF sp < 0 /\ uidTooLong(end) THEN st
        ELSE
          LET uid  == Slice(data, start, start + end)
              u    == getUsername(uid, st.uidMap, present)
              n    == IF uid \in DOMAIN st.calls THEN st.calls[uid] ELSE 0
              st2  == IF uidKnown(st.UidMap, uid) THEN st
                      ELSE [UidMap |-> MapPut(st.UidMap, uid, u.uname),
                            uidMap |-> u.uidMap,
                            calls  |-> MapPut(st.calls, uid, n + 1)]
              next == start + end + 1
          IN  IF next >= Len(data) THEN st2
              ELSE mapUidsLoop(st2, From(data, next), present)

mapUids(amg, m, cache, count, present) ==
    LET st == mapUidsLoop([UidMap |-> amg.UidMap, uidMap |-> cache, calls |-> count],
                          m.Data, present)
    IN  [amg |-> [amg EXCEPT !.UidMap = st.UidMap], uidMap |-> st.uidMap,
         calls |-> st.calls]

\* A slip of syscallTooLong: a limit of 4 characters.
syscallTooLong_4(end) == end > 4

\* "end > 5": the run to the end of the line cannot be a syscall id
syscallTooLong(end) == end > 5

findSyscall(amg, m) ==
    LET data  == m.Data
        idx   == Index(data, <<"s","y","s","c","a","l","l","=">>)
        start == idx + 8
        sp    == IndexByte(From(data, start), spaceChar)
        end   == IF sp < 0 THEN Len(data) - start ELSE sp
    IN  IF idx < 0 THEN amg
        ELSE IF sp < 0 /\ syscallTooLong(end) THEN amg
        ELSE [amg EXCEPT !.Syscall = Slice(data, start, start + end)]

\* A slip of appendMsg: the message is put in front.
appendMsg_front(Msgs, m) == <<m>> \o Msgs

\* amg.Msgs = append(amg.Msgs, am)
appendMsg(Msgs, m) == Append(Msgs, m)

\* AddMessage: the group, the process-wide cache, the group's getUsername
\* count and mapDns's locals after it, and whether it panicked.  env holds
\* what the collaborators answer during the call: present (user.LookupId),
\* partial (hex.DecodeString) and res (c.Get).
AddMessage(amg, m, cache, count, last, env) ==
    LET a == [amg EXCEPT !.Msgs = appendMsg(@, m)]
        plain == [amg |-> a, uidMap |-> cache, calls |-> count, dnsCall |-> last,
                  panic |-> FALSE]
    IN  CASE m.Type \in {EXECVE, CWD} -> plain
          [] m.Type = SOCKADDR ->
               LET d == mapDns(a, m, env.partial, env.res)
               IN  [plain EXCEPT !.amg = d.amg, !.dnsCall = d.dnsCall, !.panic = d.panic]
          [] m.Type = SYSCALL ->
               LET u == mapUids(findSyscall(a, m), m, cache, count, env.present)
               IN  [plain EXCEPT !.amg = u.amg, !.uidMap = u.uidMap, !.calls = u.calls]
          [] OTHER ->
               LET u == mapUids(a, m, cache, count, env.present)
               IN  [plain EXCEPT !.amg = u.amg, !.uidMap = u.uidMap, !.calls = u.calls]

\* A slip of groupSeq: the group's Seq is left zero.
groupSeq_zero(m) == Zero

\* Seq: am.Seq
groupSeq(m) == m.Seq

\* NewAuditMessageGroup (CompleteAfter, a wall-clock deadline the flush loop
\* reads, is left out: nothing here reads it)
NewAuditMessageGroup(m, cache, last, env) ==
    LET amg == [Seq |-> groupSeq(m), AuditTime |-> m.AuditTime, Msgs |-> <<>>,
                UidMap |-> <<>>, DnsMap |-> <<>>, Syscall |-> <<>>,
                gotSaddr |-> FALSE, gotDNS |-> FALSE]
    IN  AddMessage(amg, m, cache, <<>>, last, env)

-----------------------------------------------------------------------------
(* The main specification: the correlator consumes netlink messages.  Each  *)
(* is parsed by NewAuditMessage and routed by its sequence: to              *)
(* NewAuditMessageGroup when no group has it, to that group's AddMessage    *)
(* otherwise.                                                               *)

\* The netlink messages the kernel may deliver: a type code and a payload.
NetlinkPool ==
    { [Type |-> SYSCALL,       Data |-> <<"a","u","d","i","t","(","1",".","5",":","7",")",":"," ","s","y","s","c","a","l","l","=","5","9"," ","u","i","d","=","0">>],
      [Type |-> SYSCALL,       Data |-> <<"a","u","d","i","t","(","1",".","5",":","7",")",":"," ","s","y","s","c","a","l","l","=","2"," ","e","u","i","d","=","1","0","0","0">>],
      [Type |-> SYSCALL,       Data |-> <<"a","u","d","i","t","(","1",".","6",":","8",")",":"," ","s","y","s","c","a","l","l","=","5","9"," ","u","i","d","=","0">>],
      [Type |-> CONFIG_CHANGE, Data |-> <<"a","u","d","i","t","(","1",".","5",":","7",")",":"," ","a","u","i","d","=","1","0","0","0"," ","u","i","d","=","0">>],
      [Type |-> CONFIG_CHANGE, Data |-> <<"a","u","d","i","t","(","1",".","6",":","8",")",":"," ","u","i","d","=","1","2","3","4","5","6">>],
      [Type |-> CONFIG_CHANGE, Data |-> <<"u","i","d","=","0">>],
      [Type |-> EXECVE,        Data |-> <<"a","u","d","i","t","(","1",".","5",":","7",")",":"," ","a","0","=","u","i","d","=","5"," ","x">>],
      [Type |-> CWD,           Data |-> <<"a","u","d","i","t","(","1",".","5",":","7",")",":"," ","c","w","d","=","/"," ","u","i","d","=","7">>],
      [Type |-> SOCKADDR,      Data |-> <<"a","u","d","i","t","(","1",".","5",":","7",")",":"," ","s","a","d","d","r","=","0","2","0","0","0","0","3","5","7","F","0","0","0","0","0","1">>],
      [Type |-> SOCKADDR,      Data |-> <<"a","u","d","i","t","(","1",".","6",":","8",")",":"," ","s","a","d","d","r","=","0","2","0","0","0","0","3","5","0","1","0","0","0","0","7","F">>],
      [Type |-> SOCKADDR,      Data |-> <<"a","u","d","i","t","(","1",".","5",":","7",")",":"," ","s","a","d","d","r","=","0","2","0","0","0","0","3","5","Z","Z","0","0","0","0","0","1"," ","x">>],
      [Type |-> SOCKADDR,      Data |-> <<"a","u","d","i","t","(","1",".","5",":","7",")",":"," ","s","a","d","d","r","=","0","2","0","0","0","0","3","5","7","F","Z","Z","0","0","0","1">>],
      [Type |-> SOCKADDR,      Data |-> <<"a","u","d","i","t","(","1",".","5",":","7",")",":"," ","s","a","d","d","r","=","0","A","0","0","0","0","3","5">>],
      [Type |-> SOCKADDR,      Data |-> <<"a","u","d","i","t","(","1",".","5",":","7",")",":"," ","s","a","d","d","r","=","0","2">>],
      [Type |-> SOCKADDR,      Data |-> <<"a","u","d","i","t","(","1",".","5",":","7",")",":"," ","s","a","d","d","r","=","0","2","0","0","0","0","3","5">>],
      [Type |-> SOCKADDR,      Data |-> <<"a","u","d","i","t","(","1",".","5",":","7",")",":"," ","u","i","d","=","0">>],
      [Type |-> SOCKADDR,      Data |-> <<"a","u","d","i","t","(","1",".","6",":","8",")",":"," ","s","a","d","d","r","=","0","1","0","0","2","F","7","6","6","1","7","2","2","F","7","2","7","5","6","E","2","F","6","E","7","3","6","3","6","4","2","F","7","3","6","F","6","3","6","B","6","5","7","4","0","0">>],
      [Type |-> SYSCALL,       Data |-> <<"a","u","d","i","t","(","1","2",")"," ","u","i","d","=","0">>],
      [Type |-> SYSCALL,       Data |-> <<"a","u","d","i","t","(","1",".","5",":","7",")">>] }

\* What c.Get(ip) may answer
GetResults == { [host |-> "localhost", err |-> FALSE], [host |-> "", err |-> TRUE] }

\* What the collaborators may answer during the handling of a message of
\* type t (the answers no handler of t asks for are fixed).
Envs(t) ==
    IF t = SOCKADDR
    THEN { [present |-> {}, partial |-> p, res |-> r] : p \in BOOLEAN, r \in GetResults }
    ELSE IF t \in {EXECVE, CWD}
    THEN { [present |-> {}, partial |-> FALSE, res |-> [host |-> "", err |-> TRUE]] }
    ELSE { [present |-> P, partial |-> FALSE, res |-> [host |-> "", err |-> TRUE]] :
             P \in SUBSET DOMAIN Passwd }

RECURSIVE CountMsgs(_, _)
CountMsgs(gs, S) ==
    IF S = {} THEN 0
    ELSE LET s == CHOOSE x \in S : TRUE
         IN  Len(gs[s].Msgs) + CountMsgs(gs, S \ {s})

\* The messages held by all groups
TotalMsgs == CountMsgs(groups, DOMAIN groups)

Init ==
    /\ groups = <<>>
    /\ uidMap = <<>>
    /\ am = NoMsg
    /\ dnsCall = NoCall
    /\ calls = <<>>
    /\ panicked = FALSE
    /\ arg = <<>>
    /\ ret = <<>>
    /\ pc = "idle"

\* One netlink message is consumed.
Consume(nlm, env) ==
    /\ \E r \in {NewAuditMessage(nlm)} :
         IF r.panic
         THEN /\ panicked' = TRUE
              /\ UNCHANGED <<groups, uidMap, am, dnsCall, calls>>
         ELSE \E a \in { IF r.am.Seq \in DOMAIN groups
                         THEN AddMessage(groups[r.am.Seq], r.am, uidMap,
                                         calls[r.am.Seq], dnsCall, env)
                         ELSE NewAuditMessageGroup(r.am, uidMap, dnsCall, env) } :
                /\ am' = r.am
                /\ groups' = MapPut(groups, r.am.Seq, a.amg)
                /\ uidMap' = a.uidMap
                /\ calls' = MapPut(calls, r.am.Seq, a.calls)
                /\ dnsCall' = a.dnsCall
                /\ panicked' = a.panic
    /\ UNCHANGED <<arg, ret, pc>>

\* The listener delivers the next message, while the process runs.
Receive ==
    /\ pc = "idle"
    /\ ~panicked
    /\ TotalMsgs < MaxMsgs
    /\ \E nlm \in NetlinkPool : \E env \in Envs(nlm.Type) : Consume(nlm, env)

Next == Receive

Spec == Init /\ [][Next]_vars

-----------------------------------------------------------------------------
(* The function specifications: one call of a function of parser.go on an  *)
(* argument drawn from a bounded set.                                      *)

InitCall(S) ==
    /\ groups = <<>>
    /\ uidMap = <<>>
    /\ am = NoMsg
    /\ dnsCall = NoCall
    /\ calls = <<>>
    /\ panicked = FALSE
    /\ arg \in S
    /\ ret = <<>>
    /\ pc = "call"

\* Payloads in the parts of a header: prefix ts sep seq close body.
HeaderInputs ==
    [ prefix : {<<"a","u","d","i","t","(">>, <<"a","u","d","i","x","(">>, <<"a","u","d","(">>},
      ts     : {<<>>, <<"1",".","5">>, <<"1","4","7","9","8","5","2","5","8","4",".","1","2","3">>},
      sep    : {<<headerSepChar>>, <<>>},
      seq    : {<<"7">>, <<"0","0","7">>, <<"+","5">>, <<"-","3">>, <<"0">>, <<"x","7">>, <<>>, <<"2",":","3">>,
                <<"4","2","9","4","9","6","7","2","9","5">>, <<"9","2","2","3","3","7","2","0","3","6","8","5","4","7","7","5","8","0","7">>, <<"9","2","2","3","3","7","2","0","3","6","8","5","4","7","7","5","8","0","8">>,
                <<"1","2","3","4","5","6","7","8","9","0","1","2","3","4","5","6","7","8","9","0">>},
      close  : {<<")",":"," ">>, <<")"," ">>, <<")">>, <<>>},
      body   : {<<>>, <<"u","i","d","=","0">>, <<"a",")"," ","b">>} ]

HeaderData(a) == a.prefix \o a.ts \o a.sep \o a.seq \o a.close \o a.body

\* NewAuditMessage on a netlink message with the payload arg spells
CallNewAuditMessage ==
    /\ pc = "call"
    /\ ret' = NewAuditMessage([Type |-> SYSCALL, Data |-> HeaderData(arg)])
    /\ pc' = "done"
    /\ UNCHANGED <<groups, uidMap, am, dnsCall, calls, panicked, arg>>

NextHeader == CallNewAuditMessage

SpecHeader == InitCall(HeaderInputs) /\ [][NextHeader]_vars

\* Address blobs: family, port, four octets, padding; and blobs cut short.
Octets == {<<"0","1">>, <<"0","0">>, <<"7","F">>, <<"c","0">>, <<"G","0">>, <<"0","g">>}

AddrInputs ==
    { f \o <<"0","0","7","F">> \o a \o b \o c \o d \o t :
        f \in {<<"0","2","0","0">>, <<"0","A","0","0">>, <<"0","1","0","0">>},
        a \in Octets, b \in Octets, c \in Octets, d \in Octets,
        t \in {<<>>, <<"0","0","0","0","0","0","0","0","0","0","0","0","0","0","0","0">>} }
    \cup {<<>>, <<"0","2">>, <<"0","2","0","0">>, <<"0","A","0","0">>, <<"0","2","0","0","0","0","7","F","0","1","0","0">>, <<"0","2","0","0","0","0","7","F","0","1","0","0","0","0","7">>}

\* parseAddr on arg
CallParseAddr ==
    /\ pc = "call"
    /\ \E partial \in BOOLEAN : ret' = parseAddr(arg, partial)
    /\ pc' = "done"
    /\ UNCHANGED <<groups, uidMap, am, dnsCall, calls, panicked, arg>>

NextAddr == CallParseAddr

SpecAddr == InitCall(AddrInputs) /\ [][NextAddr]_vars

\* SYSCALL payloads in parts, pre key tok post, and the Syscall the group
\* holds before the call (prev).
SyscallInputs ==
    [ pre  : {<<>>, <<"a","r","c","h","=","c","0","0","0","0","0","3","e"," ">>, <<"a","0","=","s","y","s"," ">>},
      key  : {<<"s","y","s","c","a","l","l","=">>, <<"s","y","s","c","=">>},
      tok  : {<<>>, <<"5","9">>, <<"1","2","3","4","5">>, <<"1","2","3","4","5","6">>, <<"1","2","3","4","5","6","7">>},
      post : {<<>>, <<" ">>, <<" ","u","i","d","=","0">>, <<" ","s","y","s","c","a","l","l","=","1">>},
      prev : {<<>>, <<"2">>} ]

SyscallData(a) == a.pre \o a.key \o a.tok \o a.post

\* findSyscall on a group whose Syscall is arg.prev
CallFindSyscall ==
    /\ pc = "call"
    /\ ret' = findSyscall([Seq |-> Zero, AuditTime |-> <<>>, Msgs |-> <<>>,
                           UidMap |-> <<>>, DnsMap |-> <<>>, Syscall |-> arg.prev,
                           gotSaddr |-> FALSE, gotDNS |-> FALSE],
                          [Type |-> SYSCALL, Data |-> SyscallData(arg),
                           Seq |-> Zero, AuditTime |-> <<>>])
    /\ pc' = "done"
    /\ UNCHANGED <<groups, uidMap, am, dnsCall, calls, panicked, arg>>

NextSyscall == CallFindSyscall

SpecSyscall == InitCall(SyscallInputs) /\ [][NextSyscall]_vars

-----------------------------------------------------------------------------
(* Vocabulary of the properties *)

\* The space-separated fields of a text
RECURSIVE Fields(_)
Fields(s) ==
    LET sp == IndexByte(s, spaceChar)
    IN  IF sp < 0 THEN <<s>> ELSE <<Slice(s, 0, sp)>> \o Fields(From(s, sp + 1))

\* The text of field f after its first key
ValueOf(f, key) == From(f, Index(f, key) + Len(key))

\* The values of the fields of data that contain key, the value of the last
\* field counting only when it is at most limit characters long.
FieldValues(data, key, limit) ==
    LET F == Fields(data)
    IN  { ValueOf(F[i], key) :
            i \in { j \in 1..Len(F) :
                      /\ Index(F[j], key) >= 0
                      /\ j < Len(F) \/ Len(ValueOf(F[j], key)) <= limit } }

\* The value after every occurrence of key in data, up to the next space or
\* the end of the text
OccurrenceValues(data, key) ==
    { LET rest == From(data, i + Len(key))
          sp   == IndexByte(rest, spaceChar)
      IN  IF sp < 0 THEN rest ELSE Slice(rest, 0, sp) :
        i \in { j \in 0..(Len(data) - Len(key)) :
                  SubSeq(data, j + 1, j + Len(key)) = key } }

\* The types whose handler runs the uid scan
UidScanned(t) == t \notin {EXECVE, CWD, SOCKADDR}

\* A numeral: an optional sign and at least one digit
IsDecimal(t) ==
    LET body == IF Len(t) > 0 /\ t[1] \in {"+", "-"} THEN Tail(t) ELSE t
    IN  body # <<>> /\ \A i \in 1..Len(body) : body[i] \in DigitChars

\* The magnitude of a numeral, without leading zeros
Magnitude(t) == TrimZeros(IF t[1] \in {"+", "-"} THEN Tail(t) ELSE t)

\* The integer a numeral spells, printed in decimal
DecimalValue(t) ==
    IF t[1] = "-" /\ Magnitude(t) # Zero THEN <<"-">> \o Magnitude(t) ELSE Magnitude(t)

\* The integer is one of a 64-bit int
InIntRange(t) ==
    ~NumLess(IF t[1] = "-" THEN MinIntMag ELSE MaxIntMag, Magnitude(t))

\* arg spells 'audit(<ts>:<seq>): ' and a body, <seq> a numeral
WellFormedHeader(a) ==
    /\ a.prefix = <<"a","u","d","i","t","(">>
    /\ a.sep = <<headerSepChar>>
    /\ a.close = <<")",":"," ">>
    /\ IsDecimal(a.seq)

\* The byte two hex digits at offset i of s spell
OctetAt(s, i) == 16 * HexVal(s[i + 1]) + HexVal(s[i + 2])

\* The dotted-decimal form of the four octets at hex offsets [8,16)
Dotted(s) ==
    Itoa(OctetAt(s, 8)) \o <<".">> \o Itoa(OctetAt(s, 10)) \o <<".">>
      \o Itoa(OctetAt(s, 12)) \o <<".">> \o Itoa(OctetAt(s, 14))

AllHex(s) == \A i \in 1..Len(s) : s[i] \in HexChars

AddrSample == <<"0","2","0","0","0","0","7","F","0","1","0","0","0","0","7","F","0","0","0","0","0","0","0","0","0","0","0","0","0","0","0","0">>

\* The step appended message am' to its group (it did not panic in the header)
Added == ~(panicked' /\ groups' = groups)

\* The group of sequence s before it exists
NoGroup == [Msgs |-> <<>>, DnsMap |-> <<>>, gotSaddr |-> FALSE, gotDNS |-> FALSE]

-----------------------------------------------------------------------------
(* C1 *)

\* C1: no operation aborts: whatever messages are consumed, no run-time
\* panic happens.
NoPanic == ~panicked

(* C2 *)

\* C2 as stated: for every payload 'audit(<ts>:<seq>): <body>' with <seq> a
\* decimal integer, NewAuditMessage returns AuditTime <ts>, Seq the integer
\* <seq> and Data <body>.
HeaderParsedAnyInteger ==
    (pc = "done" /\ WellFormedHeader(arg)) =>
        /\ ~ret.panic
        /\ ret.am.AuditTime = arg.ts
        /\ ret.am.Seq = DecimalValue(arg.seq)
        /\ ret.am.Data = arg.body

\* C2, amended: the same, for every <seq> in the range of an int.
HeaderParsed ==
    (pc = "done" /\ WellFormedHeader(arg) /\ InIntRange(arg.seq)) =>
        /\ ~ret.panic
        /\ ret.am.AuditTime = arg.ts
        /\ ret.am.Seq = DecimalValue(arg.seq)
        /\ ret.am.Data = arg.body

HeaderParsedWitness ==
    /\ pc = "done"
    /\ WellFormedHeader(arg)
    /\ arg.ts = <<"1","4","7","9","8","5","2","5","8","4",".","1","2","3">>
    /\ arg.seq = <<"4","2","9","4","9","6","7","2","9","5">>
    /\ arg.body = <<"u","i","d","=","0">>
    /\ ret.am.Seq = <<"4","2","9","4","9","6","7","2","9","5">>
    /\ ret.am.Data = <<"u","i","d","=","0">>

(* C3 *)

\* C3 as stated: UidMap has a key for the value after every occurrence of
\* 'uid=' in every member message, whatever its type, mapped to the username
\* the Identity Resolver returns.
UidMapCompleteAnyType ==
    \A s \in DOMAIN groups :
      \A i \in 1..Len(groups[s].Msgs) :
        \A v \in OccurrenceValues(groups[s].Msgs[i].Data, <<"u","i","d","=">>) :
          /\ v \in DOMAIN groups[s].UidMap
          /\ v \in DOMAIN uidMap
          /\ groups[s].UidMap[v] = uidMap[v]

\* C3, amended: UidMap has a key for the value of every field that contains
\* 'uid=' in every member message whose type is not EXECVE, CWD or SOCKADDR
\* (a last field's value only when it is at most 5 characters long), mapped
\* to the username the Identity Resolver returns for it.
UidMapComplete ==
    \A s \in DOMAIN groups :
      \A i \in 1..Len(groups[s].Msgs) :
        UidScanned(groups[s].Msgs[i].Type) =>
          \A v \in FieldValues(groups[s].Msgs[i].Data, <<"u","i","d","=">>, 5) :
            /\ v \in DOMAIN groups[s].UidMap
            /\ v \in DOMAIN uidMap
            /\ groups[s].UidMap[v] = uidMap[v]

UidMapCompleteWitness ==
    \E s \in DOMAIN groups :
      /\ Len(groups[s].Msgs) = 3
      /\ \E i \in 1..3 : groups[s].Msgs[i].Type = CWD
      /\ \E i \in 1..3 : groups[s].Msgs[i].Type = SYSCALL
      /\ DOMAIN groups[s].UidMap = {<<"0">>, <<"1","0","0","0">>}
      /\ groups[s].UidMap[<<"0">>] = "root"
      /\ groups[s].UidMap[<<"1","0","0","0">>] = "UNKNOWN_USER"

(* C4 *)

ArrivalOrder ==
    [][ \/ ~Added
        \/ /\ DOMAIN groups' = DOMAIN groups \cup {am'.Seq}
           /\ groups'[am'.Seq].Msgs =
                (IF am'.Seq \in DOMAIN groups THEN groups[am'.Seq].Msgs ELSE <<>>)
                  \o <<am'>>
           /\ \A t \in DOMAIN groups \ {am'.Seq} : groups'[t].Msgs = groups[t].Msgs
      ]_vars

ArrivalOrderWitness ==
    \E s \in DOMAIN groups :
      /\ Len(groups[s].Msgs) = 3
      /\ groups[s].Msgs[1].Type = SYSCALL
      /\ groups[s].Msgs[2].Type = EXECVE
      /\ groups[s].Msgs[3].Type = SOCKADDR
      /\ panicked

(* C6 *)

\* C6: a key of a group's UidMap keeps its username in every later step,
\* and getUsername is called at most once for a uid of a group.
UidResolvedOnce ==
    [][ /\ \A s \in DOMAIN groups :
             \A k \in DOMAIN groups[s].UidMap :
               /\ k \in DOMAIN groups'[s].UidMap
               /\ groups'[s].UidMap[k] = groups[s].UidMap[k]
        /\ \A s \in DOMAIN calls' :
             \A k \in DOMAIN calls'[s] : calls'[s][k] <= 1
      ]_vars

UidResolvedOnceWitness ==
    \E s \in DOMAIN groups :
      /\ Len(groups[s].Msgs) = 3
      /\ \A i \in 1..3 :
           /\ UidScanned(groups[s].Msgs[i].Type)
           /\ <<"0">> \in FieldValues(groups[s].Msgs[i].Data, <<"u","i","d","=">>, 5)
      /\ calls[s][<<"0">>] = 1
      /\ groups[s].UidMap[<<"0">>] = "UNKNOWN_USER"

(* C8 *)

\* C8 as stated: the group of a SOCKADDR message has gotSaddr set.
SockaddrAlwaysFlagged ==
    (am.Type = SOCKADDR /\ am.Seq \in DOMAIN groups) => groups[am.Seq].gotSaddr

\* C8, amended: AddMessage of a SOCKADDR message sets gotSaddr when the
\* message has a field with 'saddr=' (a last field only with a value of at
\* most 34 characters) and leaves it otherwise; gotDNS is set, and ip ->
\* hostname added to DnsMap, when the resolver was called and succeeded, and
\* both are left unchanged otherwise.
SockaddrDispatch ==
    [][ (Added /\ am'.Type = SOCKADDR) =>
          LET old == IF am'.Seq \in DOMAIN groups THEN groups[am'.Seq] ELSE NoGroup
              new == groups'[am'.Seq]
              found == FieldValues(am'.Data, <<"s","a","d","d","r","=">>, SOCKADDR_LENGTH) # {}
          IN  /\ new.gotSaddr = (old.gotSaddr \/ found)
              /\ dnsCall'.called => found
              /\ IF dnsCall'.called /\ ~dnsCall'.err
                 THEN /\ new.gotDNS
                      /\ new.DnsMap = MapPut(old.DnsMap, dnsCall'.ip, dnsCall'.host)
                 ELSE /\ new.gotDNS = old.gotDNS
                      /\ new.DnsMap = old.DnsMap
      ]_vars

SockaddrDispatchWitness ==
    \E s \in DOMAIN groups :
      /\ Len(groups[s].Msgs) = 2
      /\ groups[s].Msgs[1].Type = SOCKADDR
      /\ groups[s].Msgs[2].Type = SOCKADDR
      /\ groups[s].gotSaddr
      /\ groups[s].gotDNS
      /\ groups[s].DnsMap = (<<"1","2","7",".","0",".","0",".","1">> :> "localhost")
      /\ dnsCall.called
      /\ dnsCall.err

(* C7 *)

\* C7 as stated: the sample blob decodes to 127.0.0.1.
AddrSampleIsLoopback ==
    (pc = "done" /\ arg = AddrSample) => ret.addr = <<"1","2","7",".","0",".","0",".","1">>

\* C7, amended: a blob of family 0200 with 8 hex digits at [8,16) decodes to
\* the dotted-decimal form of these four octets in their order, the sample
\* to 1.0.0.127; a blob with another 4-character family decodes to "".
AddrDecoded ==
    pc = "done" =>
        /\ arg = AddrSample => ret.addr = <<"1",".","0",".","0",".","1","2","7">>
        /\ arg = <<"0","2","0","0","0","0","7","F","7","F","0","0","0","0","0","1","0","0","0","0","0","0","0","0","0","0","0","0","0","0","0","0">> => ret.addr = <<"1","2","7",".","0",".","0",".","1">>
        /\ (Len(arg) >= 16 /\ Slice(arg, 0, 4) = <<"0","2","0","0">> /\ AllHex(Slice(arg, 8, 16))) =>
              ~ret.panic /\ ret.addr = Dotted(arg)
        /\ (Len(arg) >= 4 /\ Slice(arg, 0, 4) # <<"0","2","0","0">>) =>
              ~ret.panic /\ ret.addr = <<>>

AddrDecodedWitness ==
    pc = "done" /\ arg = AddrSample /\ ret.addr = <<"1",".","0",".","0",".","1","2","7">>

(* C9 *)

\* C9 as stated: Syscall is the token after the first 'syscall=' when the
\* token is at most 5 characters long, and is left empty when it is longer.
SyscallAtMostFive ==
    (pc = "done" /\ arg.key = <<"s","y","s","c","a","l","l","=">> /\ arg.prev = <<>>) =>
        ret.Syscall = IF Len(arg.tok) <= 5 THEN arg.tok ELSE <<>>

\* C9, amended: Syscall is the token after the first 'syscall=' when a space
\* follows the token or the token is at most 5 characters long; otherwise
\* (and when the text has no 'syscall=') Syscall is left as it was.
SyscallExtracted ==
    pc = "done" =>
        /\ arg.key = <<"s","y","s","c","a","l","l","=">> =>
             ret.Syscall = IF arg.post # <<>> \/ Len(arg.tok) <= 5
                           THEN arg.tok ELSE arg.prev
        /\ Index(SyscallData(arg), <<"s","y","s","c","a","l","l","=">>) < 0 => ret.Syscall = arg.prev

SyscallExtractedWitness ==
    /\ pc = "done"
    /\ arg.key = <<"s","y","s","c","a","l","l","=">>
    /\ arg.tok = <<"1","2","3","4","5">>
    /\ arg.post = <<>>
    /\ arg.prev = <<"2">>
    /\ ret.Syscall = <<"1","2","3","4","5">>

(* C10 *)

\* C10: when the 8 characters at [8,16) of a family-0200 blob are not all
\* hex digits, the decoded address is empty and the group's DnsMap gets no
\* entry for another address.
BadHexEmptyAddress ==
    (dnsCall.called /\ Slice(dnsCall.saddr, 0, 4) = <<"0","2","0","0">>
       /\ ~AllHex(Slice(dnsCall.saddr, 8, 16))) =>
        /\ dnsCall.ip = <<>>
        /\ DOMAIN groups[am.Seq].DnsMap \subseteq {<<>>, <<"1","2","7",".","0",".","0",".","1">>, <<"1",".","0",".","0",".","1","2","7">>}

====
